---- MODULE Spec2Model ----
(***************************************************************************)
(* Mutual Fund Overlap Checker (src/app.py).                               *)
(*                                                                         *)
(* The module models                                                       *)
(*   - the Streamlit script as a state machine over one browser session:   *)
(*     st.session_state, the widgets on screen, the st.cache_data store of *)
(*     get_holdings_from_moneycontrol and the fetch loop of                *)
(*     compare_multiple_funds (specification Spec);                        *)
(*   - the overlap computation as a pure function of the fetched holdings  *)
(*     (specification SpecEngine);                                         *)
(*   - the diversification score as a pure function of the overlap         *)
(*     percentage (specification SpecScore).                               *)
(*                                                                         *)
(* Text is a sequence of one-character strings, so that str.strip() is     *)
(* computed and not assumed.  A percentage is an exact fraction <<p, q>>   *)
(* (p/q, q > 0): the sizes involved are small integers, the quotient       *)
(* n/d of two of them is correctly rounded, and the only quotients whose   *)
(* product with 100 must compare equal to a cutoff (2/5 and 1/5) round     *)
(* upward in binary64, so the float comparisons of the source agree with   *)
(* the exact ones.                                                         *)
(***************************************************************************)
EXTENDS Integers, Sequences, FiniteSets, TLC

VARIABLES
    session_state,  \* st.session_state: a mapping from key to value
    rendered,       \* the buttons the last run of the script put on screen
    cache,          \* st.cache_data store of get_holdings_from_moneycontrol
    requests,       \* per URL, the number of requests.get calls issued
    pc,             \* where the script is: "idle", "fetching", "crashed", ...
    clicked,        \* the widget event the current/last run of the script handles
    fund_names,     \* compare_multiple_funds: its fund_names argument
    fund_data,      \* compare_multiple_funds: the list built by the fetch loop
    fetch_log,      \* per entry of fund_data, how its holdings were obtained
    messages,       \* st.warning / st.error texts shown by the current run
    report,         \* what compare_multiple_funds computed and rendered
    two             \* what compare_funds computed and rendered

vars == <<session_state, rendered, cache, requests, pc, clicked, fund_names,
          fund_data, fetch_log, messages, report, two>>

---------------------------------------------------------------------------
(* Bounds of the model. *)

\* SpecEngine: the longest holdings list drawn for a fund.
MaxRows == 2
\* Spec: the most rows (header included) of a fetched page's portfolio table.
MaxPageRows == 2
\* SpecScore: the largest denominator of a drawn overlap percentage.
MaxDen == 10
\* Spec: cap on the per-URL request counter.
MaxCalls == 2

(* Constants of the program. *)

InitialFunds == 2
MaxFunds == 5
MinSelected == 2
MinTables == 5
PortfolioIndex == 4
MinStockSets == 2
LowCutoff == 40
MediumCutoff == 20
LowCutoff2 == 40
MediumCutoff2 == 20

---------------------------------------------------------------------------
(* Text: str.strip(). *)

Whitespace == {" "}

RECURSIVE lstrip(_)
lstrip(s) ==
    IF Len(s) > 0 /\ Head(s) \in Whitespace THEN lstrip(Tail(s)) ELSE s

RECURSIVE rstrip(_)
rstrip(s) ==
    IF Len(s) > 0 /\ s[Len(s)] \in Whitespace
    THEN rstrip(SubSeq(s, 1, Len(s) - 1))
    ELSE s

strip(s) == rstrip(lstrip(s))

---------------------------------------------------------------------------
(* Exact fractions <<p, q>>, q > 0, for Python's float arithmetic. *)

RatDiv(a, b) == <<a[1] * b[2], a[2] * b[1]>>
RatMul(a, b) == <<a[1] * b[1], a[2] * b[2]>>
RatOfInt(n) == <<n, 1>>
RatGeq(a, c) == a[1] >= c * a[2]
RatLt(a, c) == a[1] < c * a[2]
RatEq(a, b) == a[1] * b[2] = b[1] * a[2]

---------------------------------------------------------------------------
(* The registry (fund_urls.xlsx) and the remote pages. *)

FundOrder == <<"F1", "F2", "F3">>
Funds == {FundOrder[i] : i \in DOMAIN FundOrder}

\* load_fund_list: name -> URL, one row per fund.
url_df == [f \in Funds |-> CASE f = "F1" -> "U1" [] f = "F2" -> "U2" [] OTHER -> "U3"]
URLs == {url_df[f] : f \in Funds}

\* The text of a first cell as the page holds it, before strip().
CellTexts == { <<"a">>, <<" ", "a", " ">> }
OtherCell == <<"5">>
\* A <tr>: the texts of its <td> cells (none for a row of <th> cells).
PageRows == { <<>> } \cup { <<t, OtherCell>> : t \in CellTexts }
\* A table that is not the portfolio table.
DecoyTable == << <<>>, << <<"z">>, OtherCell >> >>
PortfolioTables == UNION { [1..n -> PageRows] : n \in 0..MaxPageRows }
Decoys(k) == [i \in 1..k |-> DecoyTable]
ShortPageSizes == {0, 3, 4}

Pages ==
    { [status |-> s, tables |-> <<>>] : s \in {"network_error", "http_error"} }
    \cup { [status |-> "ok", tables |-> Decoys(k)] : k \in ShortPageSizes }
    \cup { [status |-> "ok", tables |-> Decoys(PortfolioIndex) \o <<t>>] :
             t \in PortfolioTables }

---------------------------------------------------------------------------
(* get_holdings_from_moneycontrol: the body behind the cache. *)

FetchFailed == "Failed to fetch URL"
TableMissing == "Expected portfolio table not found."
NotEnoughData == "Could not fetch enough fund data to compare."
SelectTwo == "Please select at least two different mutual funds."

\* tables[4].find_all("tr")[1:]
RowsAfterHeader(table) == IF Len(table) = 0 THEN <<>> ELSE Tail(table)

FirstCells(rows) ==
    LET kept == SelectSeq(rows, LAMBDA row : Len(row) > 0)
    IN  [i \in 1..Len(kept) |-> strip(kept[i][1])]

\* The body without its try/except: the exception of requests leaves the function.
get_holdings_unguarded(page) ==
    IF page.status # "ok"
    THEN [raised |-> TRUE, stocks |-> <<>>, message |-> "", outcome |-> page.status]
    ELSE IF Len(page.tables) < MinTables
    THEN [raised |-> FALSE, stocks |-> <<>>, message |-> TableMissing,
          outcome |-> "few_tables"]
    ELSE [raised |-> FALSE,
          stocks |-> FirstCells(RowsAfterHeader(page.tables[PortfolioIndex + 1])),
          message |-> "",
          outcome |-> "parsed"]

get_holdings_from_moneycontrol(page) ==
    IF page.status # "ok"
    THEN [raised |-> FALSE, stocks |-> <<>>, message |-> FetchFailed,
          outcome |-> page.status]
    ELSE IF Len(page.tables) < MinTables
    THEN [raised |-> FALSE, stocks |-> <<>>, message |-> TableMissing,
          outcome |-> "few_tables"]
    ELSE [raised |-> FALSE,
          stocks |-> FirstCells(RowsAfterHeader(page.tables[PortfolioIndex + 1])),
          message |-> "",
          outcome |-> "parsed"]

---------------------------------------------------------------------------
(* The overlap computation of compare_multiple_funds. *)

SetOf(seq) == {seq[i] : i \in DOMAIN seq}

\* The list of sets without its filter: [set(f["stocks"]) for f in fund_data].
StockSetsUnfiltered(data) == [i \in 1..Len(data) |-> SetOf(data[i].stocks)]

\* stock_sets = [set(f["stocks"]) for f in fund_data if f["stocks"]]
StockSets(data) ==
    LET kept == SelectSeq(data, LAMBDA f : Len(f.stocks) > 0)
    IN  [i \in 1..Len(kept) |-> SetOf(kept[i].stocks)]

\* The slice with its first half lost: stock_sets[i+1:].
OtherSetsAfter(stock_sets, i) == SubSeq(stock_sets, i + 1, Len(stock_sets))

\* The slice with 1 for i: stock_sets[1:].
OtherSetsFirst(stock_sets, i) == SubSeq(stock_sets, 2, Len(stock_sets))

\* other_sets = stock_sets[:i] + stock_sets[i+1:]   (i is 1-based here)
OtherSets(stock_sets, i) ==
    SubSeq(stock_sets, 1, i - 1) \o SubSeq(stock_sets, i + 1, Len(stock_sets))

\* The update with | for &: overlapping_stocks.update(fund_set | other).
RECURSIVE OverlappingStocksUnion(_, _, _)
OverlappingStocksUnion(fund_set, other_sets, overlapping_stocks) ==
    IF Len(other_sets) = 0
    THEN overlapping_stocks
    ELSE OverlappingStocksUnion(fund_set, Tail(other_sets),
                                overlapping_stocks \cup (fund_set \cup Head(other_sets)))

\* for other in other_sets: overlapping_stocks.update(fund_set & other)
RECURSIVE OverlappingStocks(_, _, _)
OverlappingStocks(fund_set, other_sets, overlapping_stocks) ==
    IF Len(other_sets) = 0
    THEN overlapping_stocks
    ELSE OverlappingStocks(fund_set, Tail(other_sets),
                           overlapping_stocks \cup (fund_set \cap Head(other_sets)))

\* for i, fund_set in enumerate(stock_sets): ...   returns <<numerator, denominator>>
RECURSIVE OverlapLoop(_, _, _, _)
OverlapLoop(stock_sets, i, numerator, denominator) ==
    IF i > Len(stock_sets)
    THEN <<numerator, denominator>>
    ELSE OverlapLoop(stock_sets, i + 1,
            numerator + Cardinality(
                OverlappingStocks(stock_sets[i], OtherSets(stock_sets, i), {})),
            denominator + Cardinality(stock_sets[i]))

\* overlap_pct = (numerator / denominator) * 100 if denominator > 0 else 0
OverlapPct(numerator, denominator) ==
    IF denominator > 0
    THEN RatMul(RatDiv(RatOfInt(numerator), RatOfInt(denominator)), RatOfInt(100))
    ELSE RatOfInt(0)

\* The score with > for >=.
ScoreStrict(overlap_pct) ==
    IF ~RatGeq(overlap_pct, LowCutoff) \/ RatEq(overlap_pct, RatOfInt(LowCutoff))
    THEN IF ~RatGeq(overlap_pct, MediumCutoff) \/ RatEq(overlap_pct, RatOfInt(MediumCutoff))
         THEN "High"
         ELSE "Medium"
    ELSE "Low"

\* Diversification score of compare_multiple_funds.
Score(overlap_pct) ==
    IF RatGeq(overlap_pct, LowCutoff) THEN "Low"
    ELSE IF RatGeq(overlap_pct, MediumCutoff) THEN "Medium"
    ELSE "High"

\* stock_freq = Counter(stock for s in stock_sets for stock in s)
StockFreq(stock_sets, stock) ==
    Cardinality({i \in DOMAIN stock_sets : stock \in stock_sets[i]})

\* The listing with count > 0 for count > 1.
CommonStocksAny(stock_sets) ==
    { strip(s) : s \in { x \in UNION SetOf(stock_sets) : Len(strip(x)) > 0 } }

\* [s.strip() for s, count in stock_freq.items() if count > 1 and s.strip()]
CommonStocks(stock_sets) ==
    LET all_stocks == UNION SetOf(stock_sets)
    IN  { strip(s) : s \in { x \in all_stocks :
                               /\ StockFreq(stock_sets, x) > 1
                               /\ Len(strip(x)) > 0 } }

NoReport ==
    [status |-> "none", stock_sets |-> <<>>, numerator |-> 0, denominator |-> 0,
     overlap_pct |-> <<0, 1>>, score |-> "", common_stocks |-> {}]

\* compare_multiple_funds after the fetch loop: what it computes and renders.
CompareReport(data) ==
    LET stock_sets == StockSets(data)
    IN  IF Len(stock_sets) < MinStockSets
        THEN [NoReport EXCEPT !.status = "insufficient", !.stock_sets = stock_sets]
        ELSE LET nd == OverlapLoop(stock_sets, 1, 0, 0)
                 overlap_pct == OverlapPct(nd[1], nd[2])
             IN  [status |-> "report",
                  stock_sets |-> stock_sets,
                  numerator |-> nd[1],
                  denominator |-> nd[2],
                  overlap_pct |-> overlap_pct,
                  score |-> Score(overlap_pct),
                  common_stocks |-> CommonStocks(stock_sets)]

---------------------------------------------------------------------------
(* compare_funds: the two-fund comparison. *)

Score2(overlap_pct) ==
    IF RatGeq(overlap_pct, LowCutoff2) THEN "Low"
    ELSE IF RatGeq(overlap_pct, MediumCutoff2) THEN "Medium"
    ELSE "High"

\* The two-fund percentage over the union (Jaccard) instead of the average size.
compare_funds_union(fund1, fund2) ==
    LET set1 == SetOf(fund1.stocks)
        set2 == SetOf(fund2.stocks)
        overlap == set1 \cap set2
        both == RatOfInt(Cardinality(set1 \cup set2))
    IN  IF both[1] = 0
        THEN [NoReport EXCEPT !.status = "ZeroDivisionError"]
        ELSE LET overlap_pct ==
                     RatMul(RatDiv(RatOfInt(Cardinality(overlap)), both), RatOfInt(100))
             IN  [NoReport EXCEPT !.status = "report",
                                  !.stock_sets = <<set1, set2>>,
                                  !.overlap_pct = overlap_pct,
                                  !.score = Score2(overlap_pct),
                                  !.common_stocks = overlap]

compare_funds(fund1, fund2) ==
    LET set1 == SetOf(fund1.stocks)
        set2 == SetOf(fund2.stocks)
        overlap == set1 \cap set2
        avg_len == RatDiv(RatOfInt(Cardinality(set1) + Cardinality(set2)), RatOfInt(2))
    IN  IF avg_len[1] = 0
        THEN [NoReport EXCEPT !.status = "ZeroDivisionError"]
        ELSE LET overlap_pct ==
                     RatMul(RatDiv(RatOfInt(Cardinality(overlap)), avg_len),
                            RatOfInt(100))
             IN  [NoReport EXCEPT !.status = "report",
                                  !.stock_sets = <<set1, set2>>,
                                  !.overlap_pct = overlap_pct,
                                  !.score = Score2(overlap_pct),
                                  !.common_stocks = overlap]

---------------------------------------------------------------------------
(* The script, top to bottom (one run per widget event). *)

\* if key not in st.session_state: st.session_state[key] = value
SetDefault(state, key, value) ==
    IF key \in DOMAIN state THEN state ELSE (key :> value) @@ state

InitSessionState(state) ==
    SetDefault(SetDefault(state, "num_funds", InitialFunds), "add_triggered", FALSE)

\* The Add button is put on screen only below five selectors.
AddButtonShown(state) == state["num_funds"] < MaxFunds

\* if st.button("Add Another Fund"): st.session_state["add_triggered"] = True
AddButton(state, event) ==
    IF AddButtonShown(state) /\ event = "add"
    THEN [state EXCEPT !["add_triggered"] = TRUE]
    ELSE state

\* The handler without its reset of add_triggered.
HandleAddTriggerNoReset(state) ==
    IF state["add_triggered"] /\ state["num_funds"] < MaxFunds
    THEN [state EXCEPT !["num_funds"] = @ + 1]
    ELSE state

\* If triggered, increment count and reset trigger.
HandleAddTrigger(state) ==
    IF state["add_triggered"]
    THEN LET bumped == IF state["num_funds"] < MaxFunds
                       THEN [state EXCEPT !["num_funds"] = @ + 1]
                       ELSE state
         IN  [bumped EXCEPT !["add_triggered"] = FALSE]
    ELSE state

\* The selector loop: picks[i] is what selectbox i holds; a value that is not
\* among the options left reads as the blank first option.
RECURSIVE SelectorLoop(_, _, _, _)
SelectorLoop(picks, num, i, fund_inputs) ==
    IF i > num
    THEN fund_inputs
    ELSE LET available_options == Funds \ SetOf(fund_inputs)
             fund_input == IF picks[i] \in available_options THEN picks[i] ELSE ""
         IN  SelectorLoop(picks, num, i + 1,
                          IF fund_input # "" THEN Append(fund_inputs, fund_input)
                          ELSE fund_inputs)

\* What the selectboxes can hold: each shows the blank option and the funds no
\* earlier selectbox holds.  The user fills the selectboxes from the first or
\* from the second one on and leaves the rest blank.
Picks ==
    [num \in InitialFunds..MaxFunds |->
        { p \in [1..num -> Funds \cup {""}] :
            /\ \A i, j \in 1..num : (i < j /\ p[i] # "") => p[i] # p[j]
            /\ \A i, j \in 2..num : (i < j /\ p[i] = "") => p[j] = "" }]

\* The function without its cache decorator: no call is served from the store.
CacheNever(store, url) == FALSE

\* st.cache_data: is there an entry for this argument?
CacheHit(store, url) == url \in DOMAIN store

CachePut(store, url, value) ==
    [u \in DOMAIN store \cup {url} |-> IF u = url THEN value ELSE store[u]]

EmptyStore == [u \in {} |-> <<>>]

Init ==
    /\ session_state = [k \in {} |-> 0]
    /\ rendered = {}
    /\ cache = EmptyStore
    /\ requests = [u \in URLs |-> 0]
    /\ pc = "idle"
    /\ clicked = "none"
    /\ fund_names = <<>>
    /\ fund_data = <<>>
    /\ fetch_log = <<>>
    /\ messages = {}
    /\ report = NoReport
    /\ two = NoReport

\* One run of the script for a widget event, up to the call of
\* compare_multiple_funds.
RunScript(event, picks) ==
    LET s1 == InitSessionState(session_state)
        shown == AddButtonShown(s1)
        s3 == HandleAddTrigger(AddButton(s1, event))
        fund_inputs == SelectorLoop(picks, s3["num_funds"], 1, <<>>)
        selected_funds == fund_inputs
        comparing == event = "compare" /\ Len(selected_funds) >= MinSelected
    IN  /\ session_state' = s3
        /\ rendered' = (IF shown THEN {"add"} ELSE {}) \cup {"compare"}
        /\ clicked' = event
        /\ fund_names' = IF comparing THEN selected_funds ELSE <<>>
        /\ fund_data' = <<>>
        /\ fetch_log' = <<>>
        /\ messages' = IF event = "compare" /\ ~comparing THEN {SelectTwo} ELSE {}
        /\ report' = NoReport
        /\ pc' = IF comparing THEN "fetching" ELSE "idle"
        /\ UNCHANGED <<cache, requests, two>>

Resting == pc \in {"idle", "crashed"}

\* The page is loaded, or a selectbox is changed.
Rerun ==
    /\ Resting
    /\ RunScript("other", [i \in 1..MaxFunds |-> ""])

\* "Add Another Fund" is clicked (it is on screen).
RerunAdd ==
    /\ Resting
    /\ "add" \in rendered
    /\ RunScript("add", [i \in 1..MaxFunds |-> ""])

\* "Compare" is clicked, the selectboxes holding picks.
RerunCompare ==
    /\ Resting
    /\ "compare" \in rendered
    /\ \E picks \in Picks[HandleAddTrigger(InitSessionState(session_state))["num_funds"]] :
            RunScript("compare", picks)

\* The end of compare_multiple_funds, once fund_data is complete.
Finish(data, shown) ==
    IF Len(data) < Len(fund_names)
    THEN /\ pc' = "fetching"
         /\ report' = NoReport
         /\ messages' = shown
    ELSE LET r == CompareReport(data)
         IN  /\ pc' = "idle"
             /\ report' = r
             /\ messages' = IF r.status = "insufficient"
                            THEN shown \cup {NotEnoughData}
                            ELSE shown

\* One turn of the fetch loop whose URL is in the cache.
FetchCached ==
    /\ pc = "fetching"
    /\ LET name == fund_names[Len(fund_data) + 1]
           url == url_df[name]
       IN  /\ CacheHit(cache, url)
           /\ LET data == Append(fund_data, [name |-> name, stocks |-> cache[url]])
              IN  /\ fund_data' = data
                  /\ fetch_log' = Append(fetch_log, "cached")
                  /\ Finish(data, messages)
    /\ UNCHANGED <<session_state, rendered, cache, requests, clicked, fund_names, two>>

\* One turn of the fetch loop that runs the function: the remote site answers
\* with some page (or not at all).
FetchRequest ==
    /\ pc = "fetching"
    /\ LET name == fund_names[Len(fund_data) + 1]
           url == url_df[name]
       IN  /\ ~CacheHit(cache, url)
           /\ requests[url] < MaxCalls
           /\ \E page \in Pages :
                LET r == get_holdings_from_moneycontrol(page)
                    data == Append(fund_data, [name |-> name, stocks |-> r.stocks])
                    shown == IF r.message = "" THEN messages
                             ELSE messages \cup {r.message}
                IN  /\ requests' = [requests EXCEPT ![url] = @ + 1]
                    /\ IF r.raised
                       THEN /\ pc' = "crashed"
                            /\ UNCHANGED <<cache, fund_data, fetch_log, messages, report>>
                       ELSE /\ cache' = CachePut(cache, url, r.stocks)
                            /\ fund_data' = data
                            /\ fetch_log' = Append(fetch_log, r.outcome)
                            /\ Finish(data, shown)
    /\ UNCHANGED <<session_state, rendered, clicked, fund_names, two>>

Next == Rerun \/ RerunAdd \/ RerunCompare \/ FetchCached \/ FetchRequest

Spec == Init /\ [][Next]_vars

---------------------------------------------------------------------------
(* The overlap computation alone, on drawn holdings. *)

\* The names a fetch can return: stripped first cells, the blank one included.
Stocks == { <<>>, <<"a">>, <<"b">> }
HoldingsLists == UNION { [1..k -> Stocks] : k \in 0..MaxRows }

\* fund_data as the fetch loop leaves it, for the first n funds of the registry.
EngineInput(h) == [i \in DOMAIN h |-> [name |-> FundOrder[i], stocks |-> h[i]]]

SessionAtRest ==
    /\ session_state = InitSessionState([k \in {} |-> 0])
    /\ rendered = {}
    /\ cache = EmptyStore
    /\ requests = [u \in URLs |-> 0]
    /\ clicked = "compare"
    /\ fetch_log = <<>>
    /\ messages = {}

InitEngine ==
    /\ SessionAtRest
    /\ pc = "engine"
    /\ \E n \in MinSelected..Len(FundOrder) :
          \E h \in [1..n -> HoldingsLists] : fund_data = EngineInput(h)
    /\ fund_names = [i \in DOMAIN fund_data |-> fund_data[i].name]
    /\ report = NoReport
    /\ two = NoReport

\* compare_multiple_funds from the line after its fetch loop.
EngineCompare ==
    /\ pc = "engine"
    /\ report.status = "none"
    /\ LET r == CompareReport(fund_data)
       IN  /\ report' = r
           /\ messages' = IF r.status = "insufficient" THEN {NotEnoughData} ELSE {}
    /\ UNCHANGED <<session_state, rendered, cache, requests, pc, clicked,
                   fund_names, fund_data, fetch_log, two>>

\* compare_funds on the same two funds.
EngineCompareTwo ==
    /\ pc = "engine"
    /\ Len(fund_data) = 2
    /\ two.status = "none"
    /\ two' = compare_funds(fund_data[1], fund_data[2])
    /\ UNCHANGED <<session_state, rendered, cache, requests, pc, clicked,
                   fund_names, fund_data, fetch_log, messages, report>>

NextEngine == EngineCompare \/ EngineCompareTwo

SpecEngine == InitEngine /\ [][NextEngine]_vars

---------------------------------------------------------------------------
(* The diversification score alone, on drawn overlap percentages. *)

InitScore ==
    /\ SessionAtRest
    /\ pc = "score"
    /\ fund_data = <<>>
    /\ fund_names = <<>>
    /\ \E denominator \in 1..MaxDen : \E numerator \in 0..denominator :
          /\ report = [NoReport EXCEPT
                          !.status = "scoring",
                          !.numerator = numerator,
                          !.denominator = denominator,
                          !.overlap_pct = OverlapPct(numerator, denominator)]
          /\ two = [NoReport EXCEPT
                          !.status = "scoring",
                          !.overlap_pct = OverlapPct(numerator, denominator)]

\* compare_multiple_funds: the score of its overlap_pct.
ScoreMultiple ==
    /\ pc = "score"
    /\ report.score = ""
    /\ report' = [report EXCEPT !.score = Score(report.overlap_pct)]
    /\ UNCHANGED <<session_state, rendered, cache, requests, pc, clicked,
                   fund_names, fund_data, fetch_log, messages, two>>

\* compare_funds: the score of its overlap_pct.
ScoreTwo ==
    /\ pc = "score"
    /\ two.score = ""
    /\ two' = [two EXCEPT !.score = Score2(two.overlap_pct)]
    /\ UNCHANGED <<session_state, rendered, cache, requests, pc, clicked,
                   fund_names, fund_data, fetch_log, messages, report>>

NextScore == ScoreMultiple \/ ScoreTwo

SpecScore == InitScore /\ [][NextScore]_vars

---------------------------------------------------------------------------
(* Properties. *)

Reported == report.status = "report"

\* The holdings lists of fund_data that are not empty, as sets, in order.
NonEmptyFunds == { i \in DOMAIN fund_data : Len(fund_data[i].stocks) > 0 }
AllNames == UNION { SetOf(fund_data[i].stocks) : i \in DOMAIN fund_data }

\* O_i: the stocks of S_i that some other set holds too.
OverlapOf(S, i) == UNION { S[i] \cap S[j] : j \in DOMAIN S \ {i} }
SumOverlaps(S) ==
    Cardinality({ pair \in (DOMAIN S) \X (UNION SetOf(S)) : pair[2] \in OverlapOf(S, pair[1]) })
SumSizes(S) ==
    Cardinality({ pair \in (DOMAIN S) \X (UNION SetOf(S)) : pair[2] \in S[pair[1]] })

\* C1: whenever an overlap is reported for the sets S_1..S_N (N >= 2), the
\* numerator is the sum over i of |O_i|, O_i the union over j # i of
\* S_i \cap S_j, the denominator is the sum over i of |S_i|, and the percentage
\* is 100 * numerator / denominator.
C1_OverlapFormula ==
    Reported =>
        /\ Len(report.stock_sets) >= 2
        /\ report.numerator = SumOverlaps(report.stock_sets)
        /\ report.denominator = SumSizes(report.stock_sets)
        /\ RatEq(report.overlap_pct,
                 <<100 * SumOverlaps(report.stock_sets), SumSizes(report.stock_sets)>>)

\* Three funds, one stock in all three and one stock in a single fund, as in
\* A = {X,Y,Z}, B = {Y,Z,W}, C = {Z,Q,R}.
C1_Witness ==
    /\ Reported
    /\ Len(report.stock_sets) = 3
    /\ \E x \in AllNames : \A i \in 1..3 : x \in report.stock_sets[i]
    /\ 0 < report.numerator
    /\ report.numerator < report.denominator

\* C2: for two funds with non-empty holdings S1 and S2 the loop of
\* compare_multiple_funds gives 100 * |S1 \cap S2| / ((|S1| + |S2|) / 2),
\* the percentage compare_funds computes.
C2_TwoFundFormula ==
    (Reported /\ Len(fund_data) = 2 /\ two.status # "none") =>
        LET S1 == SetOf(fund_data[1].stocks)
            S2 == SetOf(fund_data[2].stocks)
        IN  /\ two.status = "report"
            /\ RatEq(report.overlap_pct, two.overlap_pct)
            /\ RatEq(report.overlap_pct,
                     <<100 * Cardinality(S1 \cap S2) * 2, Cardinality(S1) + Cardinality(S2)>>)

\* Two funds of different sizes that share some but not all of their stocks.
C2_Witness ==
    /\ Reported
    /\ Len(fund_data) = 2
    /\ two.status = "report"
    /\ Cardinality(SetOf(fund_data[1].stocks)) # Cardinality(SetOf(fund_data[2].stocks))
    /\ report.numerator > 0
    /\ report.numerator < report.denominator

Orderings(n) ==
    { p \in [1..n -> 1..n] : \A i, j \in 1..n : p[i] = p[j] => i = j }

\* C3: handing the funds to compare_multiple_funds in any other order gives
\* the same numerator, denominator, percentage and score.
C3_OrderSymmetry ==
    Reported =>
        \A p \in Orderings(Len(fund_data)) :
            LET other == CompareReport([i \in DOMAIN fund_data |-> fund_data[p[i]]])
            IN  /\ other.status = "report"
                /\ other.numerator = report.numerator
                /\ other.denominator = report.denominator
                /\ RatEq(other.overlap_pct, report.overlap_pct)
                /\ other.score = report.score

\* Three funds with three different holding sets, two of which overlap.
C3_Witness ==
    /\ Reported
    /\ Len(report.stock_sets) = 3
    /\ \A i, j \in 1..3 : i # j => report.stock_sets[i] # report.stock_sets[j]
    /\ report.numerator > 0
    /\ report.numerator < report.denominator

\* C4: funds with empty holdings are left out before numerator and denominator
\* are computed; with fewer than 2 funds left the function warns and computes
\* no percentage, score or common stocks; with 2 or more it compares exactly
\* the funds left.
C4_EmptyFundsExcluded ==
    report.status # "none" =>
        /\ Len(report.stock_sets) = Cardinality(NonEmptyFunds)
        /\ \A k \in DOMAIN report.stock_sets :
              \E i \in NonEmptyFunds :
                 /\ Cardinality({ j \in NonEmptyFunds : j <= i }) = k
                 /\ report.stock_sets[k] = SetOf(fund_data[i].stocks)
        /\ IF Cardinality(NonEmptyFunds) < 2
           THEN /\ report.status = "insufficient"
                /\ NotEnoughData \in messages
                /\ report.score = ""
                /\ report.numerator = 0
                /\ report.denominator = 0
                /\ report.common_stocks = {}
           ELSE /\ report.status = "report"
                /\ NotEnoughData \notin messages
                /\ report.denominator = SumSizes(report.stock_sets)

\* One fund with holdings and one without.
C4_Witness ==
    /\ report.status = "insufficient"
    /\ Len(fund_data) = 2
    /\ Cardinality(NonEmptyFunds) = 1
    /\ NotEnoughData \in messages

\* The number of funds whose holdings hold the name.
Frequency(x) ==
    Cardinality({ i \in DOMAIN fund_data : x \in SetOf(fund_data[i].stocks) })

\* C5, as claimed: the common stocks are exactly the names held by two or more
\* funds.
C5_SharedStocksAsClaimed ==
    Reported => report.common_stocks = { x \in AllNames : Frequency(x) >= 2 }

\* C5, amended: the common stocks are exactly the names held by two or more
\* funds that are not blank; a list that repeats a name counts once.
C5_SharedStocksNonBlank ==
    Reported =>
        report.common_stocks = { x \in AllNames : Frequency(x) >= 2 /\ Len(strip(x)) > 0 }

\* A name in two funds, a name in one fund only, a fund that lists a name twice
\* and the blank name in two funds.
C5_Witness ==
    /\ Reported
    /\ \E x \in report.common_stocks : Frequency(x) = 2
    /\ \E x \in AllNames : Frequency(x) = 1 /\ x \notin report.common_stocks
    /\ \E i \in DOMAIN fund_data :
          Len(fund_data[i].stocks) > Cardinality(SetOf(fund_data[i].stocks))
    /\ Frequency(<<>>) >= 2

\* C6: the score is "Low" exactly from 40 percent up, "Medium" exactly from 20
\* up to but not 40, "High" exactly below 20, one score for every percentage,
\* in compare_multiple_funds and in compare_funds alike.
C6_ScoreBands ==
    LET n == report.numerator
        d == report.denominator
        Band == IF 100 * n >= 40 * d THEN "Low"
                ELSE IF 100 * n >= 20 * d THEN "Medium"
                ELSE "High"
    IN  /\ report.score # "" => report.score = Band
        /\ two.score # "" => two.score = Band

\* Exactly 20 percent, scored by both functions.
C6_Witness ==
    /\ 100 * report.numerator = 20 * report.denominator
    /\ report.score = "Medium"
    /\ two.score = "Medium"

\* C9: a reported percentage lies in 0..100: the denominator is positive and
\* 0 <= numerator <= denominator.
C9_PercentRange ==
    Reported =>
        /\ report.denominator > 0
        /\ 0 <= report.numerator
        /\ report.numerator <= report.denominator
        /\ RatGeq(report.overlap_pct, 0)
        /\ ~RatLt(report.overlap_pct, 0)
        /\ report.overlap_pct[1] <= 100 * report.overlap_pct[2]
        /\ report.overlap_pct[2] > 0

\* Three funds, every stock of every fund held by another fund: 100 percent.
C9_Witness ==
    /\ Reported
    /\ Len(report.stock_sets) = 3
    /\ report.numerator = report.denominator
    /\ \E i \in 1..3 : Cardinality(report.stock_sets[i]) = 2

FetchErrors == {"network_error", "http_error"}

\* C7: a fetch that fails (no answer, a status that is not 2xx, a page with
\* fewer than five tables) shows its message and returns the empty list; the
\* error goes no further, and the fetch loop goes on to the funds that remain
\* until every selected fund has its entry.
C7_FetchErrorsContained ==
    /\ pc # "crashed"
    /\ Len(fetch_log) = Len(fund_data)
    /\ \A i \in DOMAIN fetch_log :
          /\ fetch_log[i] \in FetchErrors =>
                (fund_data[i].stocks = <<>> /\ FetchFailed \in messages)
          /\ fetch_log[i] = "few_tables" =>
                (fund_data[i].stocks = <<>> /\ TableMissing \in messages)
    /\ pc = "fetching" =>
          (Len(fund_data) < Len(fund_names) /\ ENABLED (FetchCached \/ FetchRequest))
    /\ (pc = "idle" /\ report.status # "none") =>
          /\ Len(fund_data) = Len(fund_names)
          /\ \A i \in DOMAIN fund_data : fund_data[i].name = fund_names[i]

\* The first fund's request fails, the second fund's page has too few tables,
\* and the third fund is fetched all the same.
C7_Witness ==
    /\ pc = "idle"
    /\ Len(fetch_log) = 3
    /\ fetch_log[1] \in FetchErrors
    /\ fetch_log[2] = "few_tables"
    /\ fetch_log[3] = "parsed"
    /\ Len(fund_data[3].stocks) > 0
    /\ {FetchFailed, TableMissing} \subseteq messages

\* C8: in one session a URL is requested at most once, and every call for it
\* returns the list its first call returned.
C8_FetchedOnce ==
    /\ [](/\ \A u \in URLs : requests[u] <= 1 /\ (requests[u] = 1 <=> CacheHit(cache, u))
          /\ \A i \in DOMAIN fund_data :
                /\ url_df[fund_data[i].name] \in DOMAIN cache
                /\ fund_data[i].stocks = cache[url_df[fund_data[i].name]])
    /\ [][\A u \in DOMAIN cache : u \in DOMAIN cache' /\ cache'[u] = cache[u]]_vars

\* A later Compare asks again for a URL already requested, and is served the
\* stored list.
C8_Witness ==
    \E i \in DOMAIN fetch_log :
        /\ fetch_log[i] = "cached"
        /\ requests[url_df[fund_data[i].name]] = 1
        /\ Len(fund_data[i].stocks) > 0

HasCounter == {"num_funds", "add_triggered"} \subseteq DOMAIN session_state

\* C10: num_funds starts at 2, stays within 2..5, never decreases, grows only
\* by 1 and only in a run that handles an Add click below 5, and add_triggered
\* is false when a run of the script ends.
C10_SelectorCounter ==
    /\ [](HasCounter =>
            /\ session_state["num_funds"] \in 2..5
            /\ session_state["add_triggered"] = FALSE)
    /\ [][/\ ~HasCounter => (HasCounter' /\ session_state'["num_funds"] = 2)
          /\ HasCounter =>
                /\ HasCounter'
                /\ IF clicked' = "add" /\ session_state["num_funds"] < 5
                   THEN session_state'["num_funds"] = session_state["num_funds"] + 1
                   ELSE session_state'["num_funds"] = session_state["num_funds"]]_vars

\* Five selectors, reached by Add clicks.
C10_Witness ==
    /\ HasCounter
    /\ session_state["num_funds"] = 5
    /\ clicked = "add"
    /\ "add" \in rendered

====
